---- MODULE Spec2Model ----
(***************************************************************************)
(* The directory synchronisation and navigation engine of the OS.js file   *)
(* manager (src/index.js): one browsing session, its NavigationState       *)
(* (the `state` object of createWindow and the window's 'loading' flag),   *)
(* its hyperapp HistoryState, the asynchronous readdir invocations and     *)
(* mutations in flight, and the storage backend as its environment.        *)
(*                                                                         *)
(* Filenames are natural numbers standing for strings under JavaScript's   *)
(* string order (the code only uses ===, < and > on them); 0 stands for    *)
(* the empty string ''.  A Location object is [path, id]: `id` is the      *)
(* object's identity (=== on objects compares identity, not paths).        *)
(***************************************************************************)
EXTENDS Integers, Sequences, FiniteSets, TLC

\* ---------------------------------------------------------------- bounds
\* Number of user requests that start backend work in one run: navigations
\* that pass the loading gate, mount selections and mutations.
MaxOps == 3
\* page_size reported by the paginated mount point.
PageSize == 2

\* Largest filename of the list-store runs (SpecStore).
MaxName == 3

\* Longest history list of the history runs (SpecHistory).
MaxHist == 3

\* Most base-1024 digits of a byte count in the formatting runs (SpecSize):
\* counts below 1024^5 = 2^50, all of which a double holds exactly.
MaxDigits == 5

\* ------------------------------------------------------------ environment
Paths == {"home:/", "home:/d", "osjs:/"}
Roots == {"home:/", "osjs:/"}

\* Serial numbers of the requests of a run.
Ids == 1..MaxOps

\* `undefined` for state.currentPath and for readdir's dir parameter.
Undef == [path |-> "undefined", id |-> 0]

\* The single homePath object of createInitialPaths; every other Location
\* object is created by a request and carries that request's serial number.
homePath == [path |-> "home:/", id |-> 0]

\* The empty capability object {} of the initial state.
NoCap == [known |-> FALSE, pagination |-> FALSE, page_size |-> 0]

\* vfs.capabilities(path): home:/ is paginated, osjs:/ is not.
Capabilities(path) ==
  IF path \in {"home:/", "home:/d"}
  THEN [known |-> TRUE, pagination |-> TRUE, page_size |-> PageSize]
  ELSE [known |-> TRUE, pagination |-> FALSE, page_size |-> 0]

\* ---------------------------------------------------------- humanFileSize
\* A byte count is held as its base-1024 digits, lowest digit first and
\* without leading zeros (<<>> is 0): dividing by thresh moves the point by
\* one digit, exactly as the division of a double by 1024 is exact.
thresh == 1024

units == <<"KiB", "MiB", "GiB", "TiB", "PiB", "EiB", "ZiB", "YiB">>

RECURSIVE Digits(_)
Digits(n) == IF n = 0 THEN <<>> ELSE <<n % thresh>> \o Digits(n \div thresh)

\* Values humanFileSize can be handed: a number, NaN, and values that are not
\* of type number (isNaN is true of undefined and of 'abc', false of '12').
Number(n) == [type |-> "number", nan |-> FALSE, digits |-> Digits(n)]
NaN == [type |-> "number", nan |-> TRUE, digits |-> <<>>]
NotNumbers ==
  { [type |-> "undefined", nan |-> TRUE, digits |-> <<>>],
    [type |-> "string", nan |-> TRUE, digits |-> <<>>],
    [type |-> "string", nan |-> FALSE, digits |-> <<>>] }

\* do { bytes /= thresh; ++u } while (bytes >= thresh), entered with unit
\* index u: after the step the index is u + 1 and the value, divided u + 2
\* times, has Len(d) - (u + 2) digits before the point; it is >= thresh when
\* two or more are left.  The result is the final unit index.
RECURSIVE divide(_, _)
divide(d, u) ==
  LET v == u + 1
  IN  IF Len(d) - (v + 1) >= 2 THEN divide(d, v) ELSE v

\* The carry out of the i lowest digits of 10 * d + thresh^k / 2.
RECURSIVE Carry(_, _, _)
Carry(d, i, k) ==
  IF i = 0 THEN 0
  ELSE (10 * d[i] + (IF i = k THEN thresh \div 2 ELSE 0) + Carry(d, i - 1, k)) \div thresh

\* (d / thresh^k).toFixed(1) for a value below thresh: the nearest number of
\* tenths, the larger one of two that are equally near.
toFixed(d, k) ==
  LET tenths == 10 * d[k + 1] + Carry(d, k, k)
  IN  [int |-> tenths \div 10, frac |-> tenths % 10]

\* A faulty humanFileSize that starts the unit index at 0.
humanFileSize_UnitIndexFromZero(x) ==
  LET bytes == IF x.nan \/ x.type # "number" THEN <<>> ELSE x.digits
  IN  IF Len(bytes) <= 1
      THEN [int |-> IF bytes = <<>> THEN 0 ELSE bytes[1], frac |-> -1, unit |-> "B"]
      ELSE LET u == divide(bytes, -1)
               fixed == toFixed(bytes, u + 1)
           IN  [int |-> fixed.int, frac |-> fixed.frac,
                unit |-> IF u + 2 <= Len(units) THEN units[u + 2] ELSE "undefined"]

\* humanFileSize(bytes): the text is [int, frac, unit], frac -1 when no
\* decimal is printed.
humanFileSize(x) ==
  LET bytes == IF x.nan \/ x.type # "number" THEN <<>> ELSE x.digits
  IN  IF Len(bytes) <= 1
      THEN [int |-> IF bytes = <<>> THEN 0 ELSE bytes[1], frac |-> -1, unit |-> "B"]
      ELSE LET u == divide(bytes, -1)
               fixed == toFixed(bytes, u + 1)
           IN  [int |-> fixed.int, frac |-> fixed.frac,
                unit |-> IF u + 1 <= Len(units) THEN units[u + 1] ELSE "undefined"]

\* Entries as the backend returns them: a file, and a directory, whose path
\* ends with a separator (`slash`).  `dir` is the entry's parent path, so the
\* entry's path is dir + filename, followed by a separator when slash is set.
File(name, size, dir) ==
  [filename |-> name, size |-> size, dir |-> dir, isDirectory |-> FALSE,
   isFile |-> TRUE, slash |-> FALSE, humanSize |-> humanFileSize(Number(size))]

Directory(name, dir) ==
  [filename |-> name, size |-> 0, dir |-> dir, isDirectory |-> TRUE,
   isFile |-> FALSE, slash |-> TRUE, humanSize |-> humanFileSize(Number(0))]

\* The backend's entries of each directory in ascending filename order.  The
\* listing of the sub-directory starts with its parent entry (filename 1),
\* which the stat totals do not count.
Listings ==
  [home |-> << File(2, 1, "home:/"), File(3, 2, "home:/"), File(5, 1, "home:/") >>,
   sub  |-> << Directory(1, "home:/d"), File(3, 1, "home:/d"), File(4, 2, "home:/d") >>,
   osjs |-> << File(2, 2, "osjs:/"), File(4, 1, "osjs:/") >>]

Listing(path) ==
  CASE path = "home:/"  -> Listings.home
    [] path = "home:/d" -> Listings.sub
    [] path = "osjs:/"  -> Listings.osjs

RECURSIVE SumSize(_)
SumSize(list) ==
  IF list = <<>> THEN 0 ELSE Head(list).size + SumSize(Tail(list))

\* Entries of a listing the stat call counts (not the parent entry).
Counted(path) == SelectSeq(Listing(path), LAMBDA e : e.filename # 1)

\* vfs.stat(dir): the directory's totals.
Stat(path) ==
  [totalCount |-> Len(Counted(path)), totalSize |-> SumSize(Counted(path))]

\* vfs.readdir(dir, {page}): the first `size` entries after `marker`.
Page(path, marker, size) ==
  LET rest == SelectSeq(Listing(path), LAMBDA e : e.filename > marker)
  IN  IF Len(rest) <= size THEN rest ELSE SubSeq(rest, 1, size)

\* ------------------------------------------------------------ pure helpers
\* checkMountPoint(dir): the part of the path after ':/', '' at a mount root.
checkMountPoint(path) ==
  CASE path = "home:/"  -> ""
    [] path = "home:/d" -> "d"
    [] path = "osjs:/"  -> ""

\* A faulty removeDuplicates that returns the list as it is.
removeDuplicates_KeepAll(list) == list

\* removeDuplicates(list): keeps the first entry of every filename.
removeDuplicates(list) ==
  LET keep(i) == \A j \in 1..(i - 1) : list[j].filename # list[i].filename
      idx == {i \in 1..Len(list) : keep(i)}
      RECURSIVE build(_)
      build(i) ==
        IF i > Len(list) THEN <<>>
        ELSE (IF i \in idx THEN <<list[i]>> ELSE <<>>) \o build(i + 1)
  IN  build(1)

\* The size createFileItem gives a directory made from a bare name.
DirSize == 4096

\* The humanSize createFileItem gives such a directory: '4 KiB'.
DirHumanSize == [int |-> 4, frac |-> -1, unit |-> "KiB"]

\* createFileItem(item, path): an entry that has a filename is re-rooted at
\* `path`, with a separator behind it when it is a directory; a bare name
\* [str] becomes a directory of DirSize bytes whose path is path + name; an
\* upload descriptor [name, size] becomes a file.
createFileItem(item, path) ==
  IF "filename" \in DOMAIN item
  THEN [item EXCEPT !.dir = path, !.slash = item.isDirectory]
  ELSE IF "str" \in DOMAIN item
  THEN [filename |-> item.str, size |-> DirSize, dir |-> path,
        isDirectory |-> TRUE, isFile |-> FALSE, slash |-> FALSE,
        humanSize |-> DirHumanSize]
  ELSE [filename |-> item.name, size |-> item.size, dir |-> path,
        isDirectory |-> FALSE, isFile |-> TRUE, slash |-> FALSE,
        humanSize |-> humanFileSize(Number(item.size))]

\* Array.prototype.splice(start, del, x...): `start` is 0-based and a negative
\* start counts from the end of the array.
Splice(list, start, del, ins) ==
  LET s == IF start < 0 THEN (IF Len(list) + start < 0 THEN 0 ELSE Len(list) + start)
           ELSE (IF start > Len(list) THEN Len(list) ELSE start)
  IN  SubSeq(list, 1, s) \o ins \o SubSeq(list, s + del + 1, Len(list))

\* Array.prototype.indexOf(item): 0-based, -1 when the item is not in the array.
IndexOf(list, item) ==
  LET at == {i \in 1..Len(list) : list[i] = item}
  IN  IF at = {} THEN -1 ELSE (CHOOSE i \in at : \A j \in at : i <= j) - 1

\* ------------------------------------------------------- Sorted List Store
\* The list-store operations work on st = [currentList, totalCount, totalSize].

\* A faulty addToRenderedList that inserts behind the first entry that sorts
\* after the item instead of in front of it.
addToRenderedList_InsertBehind(st, item, path) ==
  LET list == st.currentList
      addItem == createFileItem(item, path)
      hits == {i \in 1..Len(list) : \/ addItem.filename = list[i].filename
                                    \/ addItem.filename < list[i].filename}
      first == CHOOSE i \in hits : \A j \in hits : i <= j
      newList ==
        IF Len(list) = 0 THEN Splice(list, 0, 0, <<addItem>>)
        ELSE IF hits = {} THEN Splice(list, Len(list), 0, <<addItem>>)
        ELSE IF addItem.filename = list[first].filename
             THEN Splice(list, first - 1, 1, <<addItem>>)
             ELSE Splice(list, first, 0, <<addItem>>)
  IN  [currentList |-> newList,
       totalCount  |-> st.totalCount + 1,
       totalSize   |-> st.totalSize + addItem.size]

\* addToRenderedList(state, item): scan from the head; replace the first entry
\* of the same filename, or insert before the first entry that sorts after
\* the item, or append; then add to the totals.
addToRenderedList(st, item, path) ==
  LET list == st.currentList
      addItem == createFileItem(item, path)
      hits == {i \in 1..Len(list) : \/ addItem.filename = list[i].filename
                                    \/ addItem.filename < list[i].filename}
      first == CHOOSE i \in hits : \A j \in hits : i <= j
      newList ==
        IF Len(list) = 0 THEN Splice(list, 0, 0, <<addItem>>)
        ELSE IF hits = {} THEN Splice(list, Len(list), 0, <<addItem>>)
        ELSE IF addItem.filename = list[first].filename
             THEN Splice(list, first - 1, 1, <<addItem>>)
             ELSE Splice(list, first - 1, 0, <<addItem>>)
  IN  [currentList |-> newList,
       totalCount  |-> st.totalCount + 1,
       totalSize   |-> st.totalSize + addItem.size]

\* removeFromRenderedList(state, item)
removeFromRenderedList(st, item) ==
  [currentList |-> Splice(st.currentList, IndexOf(st.currentList, item), 1, <<>>),
   totalCount  |-> st.totalCount - 1,
   totalSize   |-> st.totalSize - item.size]

\* A faulty renameFromRenderedList that forgets to remove the entry first.
renameFromRenderedList_NoRemove(st, item, name, path) ==
  addToRenderedList(st, [item EXCEPT !.filename = name], path)

\* renameFromRenderedList(state, item, name)
renameFromRenderedList(st, item, name, path) ==
  addToRenderedList(removeFromRenderedList(st, item),
                    [item EXCEPT !.filename = name], path)

\* history.push(path) of createActions; index is 0-based, -1 when empty.
historyPush(h, path) ==
  LET newList == IF h.index = -1 THEN <<>> ELSE h.list
      same == Len(newList) > 0 /\ newList[Len(newList)] = path
  IN  IF same THEN [list |-> newList, index |-> Len(newList) - 1]
      ELSE [list |-> Append(newList, path), index |-> Len(newList)]

\* history.clear()
historyClear == [index |-> -1, list |-> <<>>]

\* ------------------------------------------------------------------ state
VARIABLES
  loading,          \* win.getState('loading')
  currentPath,      \* state.currentPath, a Location or Undef
  currentList,      \* state.currentList
  currentPage,      \* state.currentPage
  fetchAllPages,    \* state.fetchAllPages
  currentLastItem,  \* state.currentLastItem
  capability,       \* state.capability
  totalCount,       \* state.totalCount
  totalSize,        \* state.totalSize
  history,          \* the hyperapp state {index, list}
  calls,            \* readdir / mountview.select invocations awaiting the backend
  muts,             \* mutations awaiting the backend
  ops,              \* serial number of the last request that started backend work
  ev,               \* what the last step showed: gate outcome or error dialog
  before            \* Snapshot of the request being served alone, else NoSnapshot

listVars == <<currentList, currentPage, fetchAllPages, currentLastItem>>
totalVars == <<totalCount, totalSize>>
vars == <<loading, currentPath, currentList, currentPage, fetchAllPages,
          currentLastItem, capability, totalCount, totalSize, history,
          calls, muts, ops, ev, before>>

\* Values of ev.
Quiet == [kind |-> "none", msg |-> "", path |-> ""]
Dropped(path) == [kind |-> "dropped", msg |-> "", path |-> path]
ErrorDialog(msg, path) == [kind |-> "error", msg |-> msg, path |-> path]

\* What a request sees when it is made.
Snapshot ==
  [path |-> currentPath, list |-> currentList, history |-> history,
   totalCount |-> totalCount, totalSize |-> totalSize]
NoSnapshot ==
  [path |-> Undef, list |-> <<>>, history |-> [index |-> -2, list |-> <<>>],
   totalCount |-> 0, totalSize |-> 0]

\* The state object and flags as createWindow and createApplication build them.
Init ==
  /\ loading = FALSE
  /\ currentPath = Undef
  /\ currentList = <<>>
  /\ currentPage = 0
  /\ fetchAllPages = FALSE
  /\ currentLastItem = 0
  /\ capability = NoCap
  /\ totalCount = 0
  /\ totalSize = 0
  /\ history = [index |-> -1, list |-> <<>>]
  /\ calls = {}
  /\ muts = {}
  /\ ops = 0
  /\ ev = Quiet
  /\ before = NoSnapshot

\* Bookkeeping of `before`: taken when a request starts an invocation while
\* nothing else is in flight, kept while that invocation alone proceeds, and
\* dropped as soon as any other request or mutation is made or it completes.
Watch ==
  before' =
    IF calls = {} /\ muts = {} /\ Cardinality(calls') = 1 /\ muts' = {}
    THEN Snapshot
    ELSE IF /\ before # NoSnapshot /\ ops' = ops /\ ev'.kind # "dropped"
            /\ calls' # {} /\ muts' = {}
         THEN before
         ELSE NoSnapshot

\* ---------------------------------------------------------------- readdir
\* An invocation of readdir suspended at an await: pc is "cap" (line 715),
\* "stat" (line 726) or "list" (lines 738/740); "mcap" is mountview.select
\* awaiting its capability call (line 1185).  `arg` is the dir parameter, `dir`
\* the directory being listed; number/marker/paged are the list request's
\* options, fixed when the request is issued.
NewCall(id, arg, hist, pc) ==
  [id |-> id, arg |-> arg, dir |-> arg, hist |-> hist, pc |-> pc,
   paged |-> FALSE, size |-> 0, number |-> 0, marker |-> 0]

\* Lines 732-741: enter the try block, raise the loading flag and issue the
\* list request under capability `cap` for directory `dir`.
ListRequest(c, dir, cap, page, marker) ==
  [c EXCEPT !.pc = "list", !.dir = dir, !.paged = cap.pagination,
            !.size = cap.page_size, !.number = page, !.marker = marker]

\* updateState(state)
updateState ==
  /\ currentList' = <<>>
  /\ currentPage' = 0
  /\ fetchAllPages' = FALSE
  /\ currentLastItem' = 0

\* A faulty readdir that lacks the loading gate of lines 710-712.
readdirEnter_NoGate(dir, hist, cap) ==
  /\ calls' = calls \cup
               {NewCall(ops + 1, dir, hist, IF cap.known THEN "stat" ELSE "cap")}
  /\ ops' = ops + 1
  /\ ev' = Quiet

\* readdir(dir, history) with an explicit dir, up to its first await (lines
\* 710-726): dropped when loading, else suspended at the capability call when
\* the capability `cap` is empty and at the stat call otherwise.
readdirEnter(dir, hist, cap) ==
  IF loading
  THEN /\ calls' = calls
       /\ ops' = ops
       /\ ev' = Dropped(dir.path)
  ELSE /\ calls' = calls \cup
                   {NewCall(ops + 1, dir, hist, IF cap.known THEN "stat" ELSE "cap")}
       /\ ops' = ops + 1
       /\ ev' = Quiet

\* A request may be made while the run's budget lasts (a dropped one is free).
CanRequest == loading \/ ops < MaxOps

\* once('render', onRender): readdir(initialPath); initialPath is homePath.
onRender ==
  /\ ops = 0
  /\ readdirEnter(homePath, "undefined", capability)
  /\ UNCHANGED <<loading, currentPath, listVars, capability, totalVars, history, muts>>
  /\ Watch

\* onNavigate from the Go menu (createGoMenu) or the address bar
\* (onInputEnter) with a mount root: readdir({path}) with a new Location object.
onNavigate(p) ==
  /\ ops > 0 /\ CanRequest
  /\ readdirEnter([path |-> p, id |-> ops + 1], "undefined", capability)
  /\ UNCHANGED <<loading, currentPath, listVars, capability, totalVars, history, muts>>
  /\ Watch

\* onHome: readdir(homePath, 'clear')
onHome ==
  /\ ops > 0 /\ CanRequest
  /\ readdirEnter(homePath, "clear", capability)
  /\ UNCHANGED <<loading, currentPath, listVars, capability, totalVars, history, muts>>
  /\ Watch

\* Directories an entry of the displayed listing leads to.
Adjacent(p) ==
  CASE p = "home:/"  -> {"home:/d"}
    [] p = "home:/d" -> {"home:/"}
    [] OTHER         -> {}

\* fileview.activate on a directory entry (and the Go item of the edit menu):
\* updateState, then navigate to the entry.
activate(p) ==
  /\ currentPath # Undef /\ p \in Adjacent(currentPath.path) /\ CanRequest
  /\ updateState
  /\ readdirEnter([path |-> p, id |-> ops + 1], "undefined", capability)
  /\ UNCHANGED <<loading, currentPath, capability, totalVars, history, muts>>
  /\ Watch

\* mountview.select: updateState, then await the mount point's capability.
mountSelect(p) ==
  /\ ops > 0 /\ ops < MaxOps /\ p \in Roots
  /\ updateState
  /\ calls' = calls \cup {NewCall(ops + 1, [path |-> p, id |-> ops + 1], "undefined", "mcap")}
  /\ ops' = ops + 1
  /\ ev' = Quiet
  /\ UNCHANGED <<loading, currentPath, capability, totalVars, history, muts>>
  /\ Watch

\* mountview.select resumes: store the capability and emit navigate.
mountCapOk(id) == \E c \in calls :
  /\ c.id = id /\ c.pc = "mcap"
  /\ capability' = Capabilities(c.arg.path)
  /\ calls' = IF loading THEN calls \ {c} ELSE (calls \ {c}) \cup {[c EXCEPT !.pc = "stat"]}
  /\ ev' = IF loading THEN Dropped(c.arg.path) ELSE Quiet
  /\ UNCHANGED <<loading, currentPath, listVars, totalVars, history, muts, ops>>
  /\ Watch

\* mountview.select's capability call rejects: the handler ends.
mountCapFail(id) == \E c \in calls :
  /\ c.id = id /\ c.pc = "mcap"
  /\ calls' = calls \ {c}
  /\ ev' = Quiet
  /\ UNCHANGED <<loading, currentPath, listVars, capability, totalVars, history, muts, ops>>
  /\ Watch

\* What the last step shows when the scroll handler returned without a request.
Ignored == [kind |-> "ignored", msg |-> "", path |-> ""]

\* A faulty scroll handler that does not look at fetchAllPages.
scroll_NoFetchAllPagesTest ==
  /\ currentPath # Undef /\ CanRequest
  /\ IF ~capability.pagination
     THEN /\ ev' = Ignored
          /\ UNCHANGED <<loading, calls, ops>>
     ELSE IF loading
     THEN /\ ev' = Dropped("")
          /\ UNCHANGED <<loading, calls, ops>>
     ELSE /\ loading' = TRUE
          /\ calls' = calls \cup
               {ListRequest(NewCall(ops + 1, Undef, "undefined", "list"),
                            currentPath, capability, currentPage, currentLastItem)}
          /\ ops' = ops + 1
          /\ ev' = Quiet
  /\ UNCHANGED <<currentPath, listVars, capability, totalVars, history, muts>>
  /\ Watch

\* fileview.scroll at the bottom of the listing: nothing without pagination
\* or once fetchAllPages is set; else readdir() without a dir, which lists
\* currentPath and goes straight to the list request.
scroll ==
  /\ currentPath # Undef /\ CanRequest
  /\ IF ~capability.pagination \/ fetchAllPages
     THEN /\ ev' = Ignored
          /\ UNCHANGED <<loading, calls, ops>>
     ELSE IF loading
     THEN /\ ev' = Dropped("")
          /\ UNCHANGED <<loading, calls, ops>>
     ELSE /\ loading' = TRUE
          /\ calls' = calls \cup
               {ListRequest(NewCall(ops + 1, Undef, "undefined", "list"),
                            currentPath, capability, currentPage, currentLastItem)}
          /\ ops' = ops + 1
          /\ ev' = Quiet
  /\ UNCHANGED <<currentPath, listVars, capability, totalVars, history, muts>>
  /\ Watch

\* history.back(): navigate(list[newIndex], true), then store the index.
historyBack ==
  /\ Len(history.list) > 0 /\ history.index > 0 /\ CanRequest
  /\ LET newIndex == IF history.index - 1 > 0 THEN history.index - 1 ELSE 0
     IN  /\ readdirEnter(history.list[newIndex + 1], "true", capability)
         /\ history' = [history EXCEPT !.index = newIndex]
  /\ UNCHANGED <<loading, currentPath, listVars, capability, totalVars, muts>>
  /\ Watch

\* history.forward()
historyForward ==
  /\ Len(history.list) > 0 /\ history.index # Len(history.list) - 1 /\ CanRequest
  /\ LET newIndex == IF Len(history.list) - 1 < history.index + 1
                     THEN Len(history.list) - 1 ELSE history.index + 1
     IN  /\ readdirEnter(history.list[newIndex + 1], "true", capability)
         /\ history' = [history EXCEPT !.index = newIndex]
  /\ UNCHANGED <<loading, currentPath, listVars, capability, totalVars, muts>>
  /\ Watch

\* ------------------------------------------------- backend answers readdir
\* Line 715 resumes: store the capability, then await the stat call.
capOk(id) == \E c \in calls :
  /\ c.id = id /\ c.pc = "cap"
  /\ capability' = Capabilities(c.arg.path)
  /\ calls' = (calls \ {c}) \cup {[c EXCEPT !.pc = "stat"]}
  /\ ev' = Quiet
  /\ UNCHANGED <<loading, currentPath, listVars, totalVars, history, muts, ops>>
  /\ Watch

\* The capability call rejects outside the try block: readdir just ends.
capFail(id) == \E c \in calls :
  /\ c.id = id /\ c.pc = "cap"
  /\ calls' = calls \ {c}
  /\ ev' = Quiet
  /\ UNCHANGED <<loading, currentPath, listVars, capability, totalVars, history, muts, ops>>
  /\ Watch

\* Lines 726-741: the stat call resolves; store the totals (one more than the
\* stat's count below a mount root), raise loading and issue the list request.
statOk(id) == \E c \in calls :
  /\ c.id = id /\ c.pc = "stat"
  /\ totalCount' = Stat(c.arg.path).totalCount
                   + (IF checkMountPoint(c.arg.path) # "" THEN 1 ELSE 0)
  /\ totalSize' = Stat(c.arg.path).totalSize
  /\ loading' = TRUE
  /\ calls' = (calls \ {c}) \cup
              {ListRequest(c, c.arg, capability, currentPage, currentLastItem)}
  /\ ev' = Quiet
  /\ UNCHANGED <<currentPath, listVars, capability, history, muts, ops>>
  /\ Watch

\* The stat call rejects outside the try block: no dialog, no cleanup.
statFail(id) == \E c \in calls :
  /\ c.id = id /\ c.pc = "stat"
  /\ calls' = calls \ {c}
  /\ ev' = Quiet
  /\ UNCHANGED <<loading, currentPath, listVars, capability, totalVars, history, muts, ops>>
  /\ Watch

\* createPagesList after its await (lines 361-368), for a non-empty page.
createPagesList(page) ==
  LET merged == removeDuplicates(currentList \o page)
  IN  [currentLastItem |-> page[Len(page)].filename,
       currentPage     |-> currentPage + 1,
       currentList     |-> merged,
       fetchAllPages   |-> IF Len(merged) = totalCount THEN TRUE ELSE fetchAllPages]

\* A faulty history update that pushes whatever the history mode is.
historyUpdate_AlwaysPush(hist, dir) == historyPush(history, dir)

\* The history update of lines 749-753.
historyUpdate(hist, dir) ==
  IF hist = "undefined" THEN historyPush(history, dir)
  ELSE IF hist = "clear" THEN historyClear
  ELSE history

\* A faulty readdir whose failure path lacks the finally block.
readdirCatch_NoFinally(c) ==
  /\ ev' = ErrorDialog("MSG_READDIR_ERROR", c.dir.path)
  /\ loading' = loading
  /\ calls' = calls \ {c}

\* The catch and finally blocks of readdir (lines 757-762).
readdirCatch(c) ==
  /\ ev' = ErrorDialog("MSG_READDIR_ERROR", c.dir.path)
  /\ loading' = FALSE
  /\ calls' = calls \ {c}

\* The list request resolves (lines 738-756, then finally).  An empty page
\* makes line 361 throw, which lands in the catch block.
listOk(id) == \E c \in calls :
  /\ c.id = id /\ c.pc = "list"
  /\ LET page == IF c.paged THEN Page(c.dir.path, c.marker, c.size)
                 ELSE Listing(c.dir.path)
     IN  IF c.paged /\ page = <<>>
         THEN /\ readdirCatch(c)
              /\ UNCHANGED <<currentPath, listVars, history>>
         ELSE /\ IF c.paged
                 THEN /\ currentLastItem' = createPagesList(page).currentLastItem
                      /\ currentPage' = createPagesList(page).currentPage
                      /\ currentList' = createPagesList(page).currentList
                      /\ fetchAllPages' = createPagesList(page).fetchAllPages
                 ELSE /\ currentList' = page
                      /\ UNCHANGED <<currentPage, fetchAllPages, currentLastItem>>
              /\ currentPath' = c.dir
              /\ history' = historyUpdate(c.hist, c.dir)
              /\ ev' = Quiet
              /\ loading' = FALSE
              /\ calls' = calls \ {c}
  /\ UNCHANGED <<capability, totalVars, muts, ops>>
  /\ Watch

\* A faulty catch block that rolls the listing back to an empty one.
listFail_RollsBack(id) == \E c \in calls :
  /\ c.id = id /\ c.pc = "list"
  /\ readdirCatch(c)
  /\ updateState
  /\ UNCHANGED <<currentPath, capability, totalVars, history, muts, ops>>
  /\ Watch

\* The list request rejects: catch, then finally.
listFail(id) == \E c \in calls :
  /\ c.id = id /\ c.pc = "list"
  /\ readdirCatch(c)
  /\ UNCHANGED <<currentPath, listVars, capability, totalVars, history, muts, ops>>
  /\ Watch

\* -------------------------------------------------------------- mutations
\* A mutation awaiting the backend.  `item` is the entry it is about, `name`
\* and `size` the new name or the uploaded file, `dir` the path displayed when
\* it was started.
NoItem == File(0, 0, "")

NewMut(kind, item, name, size, msg) ==
  [id |-> ops + 1, kind |-> kind, item |-> item, name |-> name, size |-> size,
   msg |-> msg, dir |-> currentPath.path]

\* Names the user types into the mkdir and rename prompts.
PromptNames == {3}
\* The file picked for an upload or dropped on the window.
BrowserFile == [name |-> 6, size |-> 3]
\* The entry on the clipboard, copied from another directory.
ClipboardItem == File(2, 2, "osjs:/")

\* Rows of the file view the user can select (a listing here never has more).
Positions == 1..6

ListState == [currentList |-> currentList, totalCount |-> totalCount, totalSize |-> totalSize]

SetListState(st) ==
  /\ currentList' = st.currentList
  /\ totalCount' = st.totalCount
  /\ totalSize' = st.totalSize

CanMutate == currentPath # Undef /\ ops < MaxOps

\* action(promiseCallback, refreshValue, defaultError): the backend call is
\* started and not awaited, so the finally block lowers the loading flag at
\* once and the catch block never sees a rejection.
action(kind, item, name, defaultError) ==
  /\ CanMutate
  /\ loading' = FALSE
  /\ muts' = muts \cup {NewMut(kind, item, name, 0, defaultError)}
  /\ ops' = ops + 1
  /\ ev' = Quiet
  /\ UNCHANGED <<currentPath, listVars, capability, totalVars, history, calls>>
  /\ Watch

\* mkdirDialog confirmed with `name`
mkdirDialog(name) == currentPath # Undef /\ action("mkdir", NoItem, name, "MSG_MKDIR_ERROR")

\* renameDialog confirmed for a listed entry
renameDialog(i, name) == i <= Len(currentList) /\ action("rename", currentList[i], name, "MSG_RENAME_ERROR")

\* deleteDialog confirmed for a listed entry
deleteDialog(i) == i <= Len(currentList) /\ action("delete", currentList[i], 0, "MSG_DELETE_ERROR")

\* uploadVirtualFile: a dragged entry is copied here; refreshValue is `true`.
uploadVirtualFile ==
  /\ currentPath # Undef /\ ClipboardItem.dir # currentPath.path
  /\ action("copy", ClipboardItem, 0, "MSG_UPLOAD_ERROR")

\* upload (File menu): writeRelative(files[0]), reconciled in its then().
upload ==
  /\ CanMutate
  /\ muts' = muts \cup {NewMut("upload", NoItem, BrowserFile.name, BrowserFile.size, "MSG_UPLOAD_ERROR")}
  /\ ops' = ops + 1
  /\ ev' = Quiet
  /\ UNCHANGED <<loading, currentPath, listVars, capability, totalVars, history, calls>>
  /\ Watch

\* uploadBrowserFiles (files dropped on the window): the argument of then()
\* is evaluated when the chain is built, so refresh({addElement}) runs as the
\* writes are started.
uploadBrowserFiles ==
  /\ CanMutate
  /\ SetListState(addToRenderedList(ListState, BrowserFile, currentPath.path))
  /\ muts' = muts \cup {NewMut("drop", NoItem, BrowserFile.name, BrowserFile.size, "MSG_UPLOAD_ERROR")}
  /\ ops' = ops + 1
  /\ ev' = Quiet
  /\ UNCHANGED <<loading, currentPath, currentPage, fetchAllPages, currentLastItem,
                 capability, history, calls>>
  /\ Watch

\* clipboard.paste: vfs.paste(move, state.currentPath) for the clipboard entry.
paste ==
  /\ CanMutate
  /\ muts' = muts \cup {NewMut("paste", ClipboardItem, 0, 0, "MSG_PASTE_ERROR")}
  /\ ops' = ops + 1
  /\ ev' = Quiet
  /\ UNCHANGED <<loading, currentPath, listVars, capability, totalVars, history, calls>>
  /\ Watch

\* refresh({addElement | removeElement | renameElement, renameString}) as the
\* completion of mutation m calls it; nothing for a copy or a finished drop.
refresh(m) ==
  CASE m.kind = "mkdir"  -> addToRenderedList(ListState, [str |-> m.name], currentPath.path)
    [] m.kind = "upload" -> addToRenderedList(ListState, [name |-> m.name, size |-> m.size],
                                              currentPath.path)
    [] m.kind = "paste"  -> addToRenderedList(ListState, m.item, currentPath.path)
    [] m.kind = "delete" -> removeFromRenderedList(ListState, m.item)
    [] m.kind = "rename" -> renameFromRenderedList(ListState, m.item, m.name, currentPath.path)
    [] OTHER             -> ListState

\* Process ids: this session's proc.pid, another process, and no pid at all.
ProcPid == 1
OtherPid == 2
NoPid == 0

\* The pid option a mutation hands to its vfs call: every call passes
\* {pid: proc.pid} except vfs.rename, which is called without options.
pidOption(kind) == IF kind = "rename" THEN NoPid ELSE ProcPid

\* The directoryChanged notification the vfs raises for a finished mutation:
\* the directory it changed, under the pid its options carried.
Notification(m) == [pid |-> pidOption(m.kind), path |-> m.dir]

\* String(path).replace(/\/$/, ''): one trailing separator is removed.
Strip(path) ==
  CASE path = "home:/"   -> "home:"
    [] path = "home:/d/" -> "home:/d"
    [] path = "osjs:/"   -> "osjs:"
    [] OTHER             -> path

\* listener(args): whether 'filemanager:refresh' is emitted for notification
\* n.  proc.args.path is the directory of the last successful readdir, as
\* currentPath is (both are assigned at the same place).
listener(n) ==
  /\ n.pid # ProcPid
  /\ currentPath # Undef
  /\ Strip(currentPath.path) = Strip(n.path)

\* What the last step shows when the listener emitted 'filemanager:refresh'.
\* onRefresh then calls refresh() without an argument, which fails at the
\* destructuring of its parameter and changes nothing.
RefreshEmitted == [kind |-> "refresh", msg |-> "", path |-> ""]

\* The mutation's backend call resolves; the vfs then raises the
\* notification of the change.
mutOk(id) == \E m \in muts :
  /\ m.id = id
  /\ SetListState(refresh(m))
  /\ muts' = muts \ {m}
  /\ ev' = IF listener(Notification(m)) THEN RefreshEmitted ELSE Quiet
  /\ UNCHANGED <<loading, currentPath, currentPage, fetchAllPages, currentLastItem,
                 capability, history, calls, ops>>
  /\ Watch

\* Whether the promise chain of mutation m ends in a catch() handler: those of
\* upload, uploadBrowserFiles and paste do, the one action() builds does not.
catches(m) == m.kind \in {"upload", "drop", "paste"}

\* The mutation's backend call rejects: upload and paste chains end in a
\* catch() that opens the error dialog; action() attaches none.
mutFail(id) == \E m \in muts :
  /\ m.id = id
  /\ muts' = muts \ {m}
  /\ ev' = IF catches(m) THEN ErrorDialog(m.msg, "") ELSE Quiet
  /\ UNCHANGED <<loading, currentPath, listVars, capability, totalVars, history,
                 calls, ops>>
  /\ Watch

Mutations ==
  \/ \E n \in PromptNames : mkdirDialog(n)
  \/ \E i \in Positions, n \in PromptNames : renameDialog(i, n)
  \/ \E i \in Positions : deleteDialog(i)
  \/ uploadVirtualFile
  \/ upload
  \/ uploadBrowserFiles
  \/ paste
  \/ \E id \in Ids : mutOk(id)
  \/ \E id \in Ids : mutFail(id)

\* ------------------------------------------------------------- the system
Requests ==
  \/ onRender
  \/ \E p \in Roots : onNavigate(p)
  \/ onHome
  \/ \E p \in Paths : activate(p)
  \/ \E p \in Roots : mountSelect(p)
  \/ scroll
  \/ historyBack
  \/ historyForward

Answers ==
  \/ \E id \in Ids : capOk(id)
  \/ \E id \in Ids : capFail(id)
  \/ \E id \in Ids : statOk(id)
  \/ \E id \in Ids : statFail(id)
  \/ \E id \in Ids : listOk(id)
  \/ \E id \in Ids : listFail(id)
  \/ \E id \in Ids : mountCapOk(id)
  \/ \E id \in Ids : mountCapFail(id)

Next == Requests \/ Answers \/ Mutations

Spec == Init /\ [][Next]_vars

\* The backend answers every list request in the end, with a result or with a
\* rejection.
ListAnswered == \E id \in Ids : listOk(id) \/ listFail(id)

SpecLive == Spec /\ WF_vars(ListAnswered)

\* ------------------------------------- notifications of other processes
\* Directories other processes change, as their notifications name them, and
\* the pids those carry.
WatchPaths == {"home:/", "home:/d", "home:/d/", "osjs:/"}
Notices == [pid : {OtherPid, NoPid}, path : WatchPaths]

\* A directoryChanged notification caused by another process arrives.
directoryChanged(n) ==
  /\ ev' = IF listener(n) THEN RefreshEmitted ELSE Ignored
  /\ UNCHANGED <<loading, currentPath, listVars, capability, totalVars,
                 history, calls, muts, ops>>
  /\ Watch

NextWatch == Next \/ \E n \in Notices : directoryChanged(n)

SpecWatch == Init /\ [][NextWatch]_vars

\* ------------------------------------------------ humanFileSize on its own
\* Runs that only format byte counts: numbers of up to MaxDigits base-1024
\* digits, each digit one of SizeDigits, and the values that are no numbers.
SizeDigits == {0, 1, 1023}

ByteCounts ==
  {d \in UNION {[1..k -> SizeDigits] : k \in 0..MaxDigits} :
     d = <<>> \/ d[Len(d)] # 0}

SizeInputs ==
  [type : {"number"}, nan : {FALSE}, digits : ByteCounts] \cup {NaN} \cup NotNumbers

\* What the last step shows when humanFileSize(x) was formatted.
Formatted(x) ==
  [kind |-> "size", msg |-> "", path |-> "", input |-> x, text |-> humanFileSize(x)]

\* humanFileSize(x) is called.
format(x) ==
  /\ ev' = Formatted(x)
  /\ UNCHANGED <<loading, currentPath, listVars, capability, totalVars,
                 history, calls, muts, ops>>
  /\ Watch

NextSize == \E x \in SizeInputs : format(x)

SpecSize == Init /\ [][NextSize]_vars

\* ------------------------------------------- the list store on its own
\* Runs of the Sorted List Store alone: the displayed directory is homePath,
\* its list is any list sorted ascending by filename without duplicates, and
\* refresh({addElement}) is applied to it over and over.
StoreNames == 1..MaxName
StoreSizes == {1, 2}

Sorted(list) == \A i \in 1..(Len(list) - 1) : list[i].filename < list[i + 1].filename

StoreEntries == {File(n, z, "home:/") : n \in StoreNames, z \in StoreSizes}

SortedLists ==
  {list \in UNION {[1..k -> StoreEntries] : k \in 0..MaxName} : Sorted(list)}

\* What refresh is handed as addElement: a bare name (mkdir), an upload
\* descriptor, or an entry (paste).
AddElements ==
  [str : StoreNames] \cup [name : StoreNames, size : StoreSizes]
  \cup {File(n, z, "osjs:/") : n \in StoreNames, z \in StoreSizes}
  \cup {Directory(n, "osjs:/") : n \in StoreNames}

InitStore ==
  /\ loading = FALSE
  /\ currentPath = homePath
  /\ currentList \in SortedLists
  /\ currentPage = 0
  /\ fetchAllPages = FALSE
  /\ currentLastItem = 0
  /\ capability = NoCap
  /\ totalCount = Len(currentList)
  /\ totalSize = SumSize(currentList)
  /\ history = [index |-> -1, list |-> <<>>]
  /\ calls = {}
  /\ muts = {}
  /\ ops = 0
  /\ ev = Quiet
  /\ before = NoSnapshot

\* refresh({addElement}): addToRenderedList(state, addElement).
refreshAdd(item) ==
  /\ ops < MaxOps
  /\ SetListState(addToRenderedList(ListState, item, currentPath.path))
  /\ ops' = ops + 1
  /\ UNCHANGED <<loading, currentPath, currentPage, fetchAllPages, currentLastItem,
                 capability, history, calls, muts, ev, before>>

\* Marks of the last list-store operation, kept in ev.
Removed == [kind |-> "remove", msg |-> "", path |-> ""]
Renamed == [kind |-> "rename", msg |-> "", path |-> ""]

\* refresh({removeElement}) for the entry in row i.
refreshRemove(i) ==
  /\ ops < MaxOps /\ i <= Len(currentList)
  /\ SetListState(removeFromRenderedList(ListState, currentList[i]))
  /\ ops' = ops + 1
  /\ ev' = Removed
  /\ UNCHANGED <<loading, currentPath, currentPage, fetchAllPages, currentLastItem,
                 capability, history, calls, muts, before>>

\* refresh({renameElement, renameString}) for the entry in row i.
refreshRename(i, name) ==
  /\ ops < MaxOps /\ i <= Len(currentList)
  /\ SetListState(renameFromRenderedList(ListState, currentList[i], name,
                                          currentPath.path))
  /\ ops' = ops + 1
  /\ ev' = Renamed
  /\ UNCHANGED <<loading, currentPath, currentPage, fetchAllPages, currentLastItem,
                 capability, history, calls, muts, before>>

NextStore ==
  \/ \E item \in AddElements : refreshAdd(item)
  \/ \E i \in StoreNames : refreshRemove(i)
  \/ \E i \in StoreNames, name \in StoreNames : refreshRename(i, name)

SpecStore == InitStore /\ [][NextStore]_vars

\* --------------------------------------------- the history on its own
\* Runs of the hyperapp history actions alone, in any order and without the
\* toolbar's disabled buttons: push(path), clear(), back(), forward().

\* A faulty back() without Math.max.
backIndex_NoClamp(h) == h.index - 1

\* back(): newIndex = Math.max(0, index - 1)
backIndex(h) == IF h.index - 1 > 0 THEN h.index - 1 ELSE 0

\* A faulty forward() that does not move.
forwardIndex_Stay(h) == h.index

\* forward(): newIndex = Math.min(list.length - 1, index + 1)
forwardIndex(h) ==
  IF Len(h.list) - 1 < h.index + 1 THEN Len(h.list) - 1 ELSE h.index + 1

\* list[i] of a JavaScript array: undefined outside the array.
At(list, i) == IF i >= 0 /\ i < Len(list) THEN list[i + 1] ELSE Undef

\* Location objects handed to push: two objects per path.
Locations == [path : Roots, id : {0, 1}]

\* Marks of the last history action, kept in ev; Emitted is the
\* 'filemanager:navigate' event back() and forward() emit.
Pushed == [kind |-> "push", msg |-> "", path |-> ""]
Cleared == [kind |-> "clear", msg |-> "", path |-> ""]
Emitted(by, loc) == [kind |-> "navigate", msg |-> by, path |-> loc.path]

\* history.push(path)
push(loc) ==
  /\ Len(history.list) < MaxHist
  /\ history' = historyPush(history, loc)
  /\ ev' = Pushed
  /\ before' = NoSnapshot
  /\ UNCHANGED <<loading, currentPath, listVars, capability, totalVars, calls, muts, ops>>

\* history.clear()
clear ==
  /\ history' = historyClear
  /\ ev' = Cleared
  /\ before' = NoSnapshot
  /\ UNCHANGED <<loading, currentPath, listVars, capability, totalVars, calls, muts, ops>>

\* history.back(): emit navigate(list[newIndex], true), return {index}.
\* `before` keeps the history a back() from the last entry started from.
back ==
  /\ ev' = Emitted("back", At(history.list, backIndex(history)))
  /\ history' = [history EXCEPT !.index = backIndex(history)]
  /\ before' = IF Len(history.list) > 0 /\ history.index = Len(history.list) - 1
               THEN Snapshot ELSE NoSnapshot
  /\ UNCHANGED <<loading, currentPath, listVars, capability, totalVars, calls, muts, ops>>

\* history.forward()
forward ==
  /\ ev' = Emitted("forward", At(history.list, forwardIndex(history)))
  /\ history' = [history EXCEPT !.index = forwardIndex(history)]
  /\ before' = IF ev.msg = "back" THEN before ELSE NoSnapshot
  /\ UNCHANGED <<loading, currentPath, listVars, capability, totalVars, calls, muts, ops>>

NextHistory ==
  \/ \E loc \in Locations : push(loc)
  \/ clear
  \/ back
  \/ forward

SpecHistory == Init /\ [][NextHistory]_vars

\* ------------------------------------------------- browsing on its own
\* Runs in which the user only browses: no mutation is made, so the backend's
\* directories stay as Listing gives them.
NextBrowse == Requests \/ Answers

SpecBrowse == Init /\ [][NextBrowse]_vars

\* ------------------------------------------------------------ properties
\* Invocations of readdir that are under way.
Navigations == {c \in calls : c.pc \in {"cap", "stat", "list"}}

\* C1: at most one navigation is in progress per session; a navigate or
\* loadNextPage request made while an accepted one has not completed (also
\* while that one awaits its capability or stat call, and also after an action
\* was started in between) is dropped, so no second invocation is under way.
C1_OneNavigationInProgress == Cardinality(Navigations) <= 1

\* The requests that do nothing but call readdir, and mountview.select's
\* navigate once its capability call has resolved.
NavigateRequest ==
  \/ \E p \in Roots : onNavigate(p)
  \/ onHome
  \/ scroll
  \/ \E id \in Ids : mountCapOk(id)

\* C2: a navigate(location) or loadNextPage() request made while the loading
\* flag is true calls no backend and leaves currentPath, currentList,
\* totalCount, totalSize, currentPage, currentLastItem, fetchAllPages and the
\* history list and index as they are.
C2_GateLeavesStateAlone ==
  [][(loading /\ NavigateRequest) =>
       /\ Navigations' = Navigations
       /\ muts' = muts
       /\ UNCHANGED <<currentPath, currentList, totalCount, totalSize, currentPage,
                      currentLastItem, fetchAllPages, history>>]_vars

\* A navigate({path: 'osjs:/'}) has just been dropped at the gate.
C2_Witness == loading /\ ev = Dropped("osjs:/")

\* C3: every navigation that raises the loading flag lowers it again in the
\* end, whether its list call succeeds or fails; loading never stays true
\* forever.
C3_LoadingIsLowered == loading ~> ~loading

\* A list call has just failed and the flag is down again.
C3_Witness == ~loading /\ ev.kind = "error" /\ ev.msg = "MSG_READDIR_ERROR"

\* A navigation's stat call or list call rejects.
NavigationFails == \E id \in Ids : statFail(id) \/ listFail(id)

\* C4: when a navigation fails and the session is idle again, currentPath,
\* currentList and the history list and index are what they were right before
\* the navigation was requested, however it was requested.  (`before` holds
\* that snapshot for a navigation requested in an idle session and served
\* without any other request in between.)
C4_FailureRestoresState ==
  [][(NavigationFails /\ before # NoSnapshot /\ calls' = {} /\ ~loading') =>
       /\ currentPath' = before.path
       /\ currentList' = before.list
       /\ history' = before.history]_vars

\* C5: every failed navigation shows exactly one error dialog that carries the
\* directory's path, on a rejection of the stat call as well as of the list
\* call, and a successful one shows none.
C5_OneDialogPerFailedNavigation ==
  [][\A id \in Ids : \A c \in calls : c.id = id =>
       /\ (statFail(id) \/ listFail(id)) => ev' = ErrorDialog("MSG_READDIR_ERROR", c.dir.path)
       /\ (listOk(id) /\ currentPath' = c.dir) => ev'.kind # "error"]_vars

\* A step that starts a mutation.
MutationStarts == \E m \in muts' : m \notin muts

\* C6: the reconciliation of a mutation is applied only after its backend call
\* has resolved successfully: neither starting a mutation nor its rejection
\* changes currentList, totalCount or totalSize.
C6_NoReconciliationWithoutSuccess ==
  [][(MutationStarts \/ \E id \in Ids : mutFail(id)) =>
       UNCHANGED <<currentList, totalCount, totalSize>>]_vars

\* C7: every failed mutation shows exactly one error dialog with that
\* operation's message, and a mutation that succeeds shows none.
C7_OneDialogPerFailedMutation ==
  [][\A id \in Ids : \A m \in muts : m.id = id =>
       /\ mutFail(id) => ev' = ErrorDialog(m.msg, "")
       /\ mutOk(id) => ev'.kind # "error"]_vars

\* C8: a mutation started while directory D was displayed whose backend call
\* completes after currentPath has become another directory is not
\* reconciled: currentList, totalCount and totalSize stay as they are.
C8_StaleMutationSkipped ==
  [][\A id \in Ids : \A m \in muts :
       (m.id = id /\ (mutOk(id) \/ mutFail(id)) /\ currentPath.path # m.dir) =>
         UNCHANGED <<currentList, totalCount, totalSize>>]_vars

\* C9: every navigation to an explicit location starts a fresh listing: when
\* its list request is issued fetchAllPages is false and, under pagination,
\* the request carries page number 0 and the empty marker and the list it
\* will be merged into is empty.  (Stated for a navigation requested in an
\* idle session and served alone, so that no interleaving is involved.)
C9_FreshListing ==
  [][\A id \in Ids : (statOk(id) /\ before # NoSnapshot) =>
       /\ ~fetchAllPages
       /\ capability.pagination =>
            /\ currentPage = 0
            /\ currentLastItem = 0
            /\ currentList = <<>>]_vars

\* C10: starting from a list sorted ascending by filename without duplicates,
\* after any sequence of insertOrReplace calls currentList is sorted strictly
\* ascending by filename, hence without two entries of one filename.
C10_StoreStaysSorted == Sorted(currentList)

\* Two insertOrReplace calls have been made, one of which replaced an entry,
\* and the list holds several entries.
C10_Witness == ops >= 2 /\ Len(currentList) >= 2 /\ totalCount > Len(currentList)

\* Whether the list has an entry of that filename.
HasName(list, name) == \E i \in 1..Len(list) : list[i].filename = name

\* C11: insertOrReplace(item) adds 1 to totalCount and item.size to totalSize
\* exactly when no entry of item's filename was in currentList; when it
\* replaces an entry of that filename both totals stay as they are.
C11_TotalsFollowInsertion ==
  [][\A item \in AddElements : refreshAdd(item) =>
       LET addItem == createFileItem(item, currentPath.path)
       IN  IF HasName(currentList, addItem.filename)
           THEN UNCHANGED <<totalCount, totalSize>>
           ELSE /\ totalCount' = totalCount + 1
                /\ totalSize' = totalSize + addItem.size]_vars

\* The filenames of a list, in order.
Names(list) == [i \in 1..Len(list) |-> list[i].filename]

\* remove(item) followed by insertOrReplace(item) for the entry in row i.
RoundTrip(i) ==
  addToRenderedList(removeFromRenderedList(ListState, currentList[i]),
                    currentList[i], currentPath.path)

\* C12: for every item of currentList, remove(item) followed by
\* insertOrReplace of the same item gives back the totalCount and totalSize
\* and the sequence of filenames there were before the remove.
C12_RemoveInsertRoundTrip ==
  \A i \in 1..Len(currentList) :
    /\ RoundTrip(i).totalCount = totalCount
    /\ RoundTrip(i).totalSize = totalSize
    /\ Names(RoundTrip(i).currentList) = Names(currentList)

\* C13: for every item of a sorted duplicate-free currentList and every new
\* name, also one another entry has, renameMove(item, newName) leaves
\* totalCount and totalSize as they are and gives a list sorted ascending by
\* filename without duplicates that has an entry named newName.
C13_RenameKeepsTotalsAndOrder ==
  [][\A i \in StoreNames, name \in StoreNames : refreshRename(i, name) =>
       /\ UNCHANGED <<totalCount, totalSize>>
       /\ Sorted(currentList')
       /\ HasName(currentList', name)]_vars

\* The first operation was a rename onto a name another entry had: the list
\* is one entry shorter than the count.
C13_Witness == ev = Renamed /\ ops = 1 /\ Len(currentList) >= 1
               /\ totalCount = Len(currentList) + 1

\* C14: no two consecutive entries of the history list are the same
\* location; pushing the location that is the last entry does not grow the
\* list.
C14_NoConsecutiveDuplicates ==
  \A i \in 1..(Len(history.list) - 1) :
    history.list[i].path # history.list[i + 1].path

\* C15: after any sequence of push, clear, back and forward, also back and
\* forward on an empty history, a non-empty history list has
\* 0 <= index < list.length.
C15_IndexInRange ==
  Len(history.list) > 0 => (0 <= history.index /\ history.index < Len(history.list))

\* back() has stepped down from the last of several entries.
C15_Witness ==
  ev.msg = "back" /\ Len(history.list) >= 2 /\ history.index = Len(history.list) - 2

\* C16: for a non-empty history whose index is at the last entry, back()
\* followed by forward() gives back the index and leaves the list as it was.
C16_BackForwardRoundTrip ==
  (ev.msg = "forward" /\ before # NoSnapshot) => history = before.history

\* back() then forward() have run from the last of several entries.
C16_Witness ==
  ev.msg = "forward" /\ before # NoSnapshot /\ Len(history.list) >= 2

\* C17: back() on an empty history (list empty, index -1) emits no navigate
\* request and leaves the history list and index as they were.
C17_BackOnEmptyDoesNothing ==
  [][(back /\ history.list = <<>> /\ history.index = -1) =>
       (ev'.kind # "navigate" /\ history' = history)]_vars

\* A navigation's list call resolves and readdir runs to its end.
Succeeds(c) == listOk(c.id) /\ ev'.kind # "error"

\* C18: after a successful navigation with historyMode 'clear' the history is
\* a single-entry stack: its only entry is the new location and index is 0.
\* (Stated for a navigation requested in an idle session and served alone.)
C18_ClearLeavesOneEntry ==
  [][\A c \in calls : (c.hist = "clear" /\ Succeeds(c) /\ before # NoSnapshot) =>
       history' = [index |-> 0, list |-> <<c.dir>>]]_vars

\* C19: a successful navigation with historyMode true sets currentPath to the
\* target and leaves the history list and index as they were; one with
\* historyMode undefined makes exactly one push of the target.
C19_HistoryModes ==
  [][\A c \in calls : (c.arg # Undef /\ Succeeds(c)) =>
       /\ currentPath' = c.arg
       /\ c.hist = "true" => history' = history
       /\ c.hist = "undefined" => history' = historyPush(history, c.arg)]_vars

\* A navigation started by back() or forward() has just succeeded.
C19_Witness ==
  /\ currentPath # Undef /\ calls = {} /\ ev = Quiet /\ ~loading
  /\ Len(history.list) >= 2 /\ history.index = 0
  /\ currentPath = history.list[1]

\* currentList has an entry for every entry of the displayed directory.
HoldsEveryEntry ==
  \A i \in 1..Len(Listing(currentPath.path)) :
    HasName(currentList, Listing(currentPath.path)[i].filename)

\* C20: on a paginated backend that returns a directory's entries in sorted
\* order page by page, the state with fetchAllPages = true that navigation
\* and repeated loadNextPage() calls reach is one in which currentList holds
\* every entry of the displayed directory.
\* (Stated for the request, navigation or loadNextPage, whose page sets
\* fetchAllPages, made in an idle session and served alone.)
C20_AllPagesHoldAllEntries ==
  [][\A id \in Ids :
       (listOk(id) /\ before # NoSnapshot /\ capability.pagination
        /\ ~fetchAllPages /\ fetchAllPages') => HoldsEveryEntry']_vars

\* List calls that are outstanding.
ListCalls == {c \in calls : c.pc = "list"}

\* C21: once fetchAllPages is true a scroll-near-bottom signal requests no
\* page: it makes no backend call and leaves currentList, currentPage and
\* currentLastItem as they are.
C21_NoPageAfterAllPages ==
  [][(fetchAllPages /\ capability.pagination /\ scroll) =>
       /\ calls' = calls
       /\ UNCHANGED <<currentList, currentPage, currentLastItem, fetchAllPages>>]_vars

\* The scroll handler has just returned at the fetchAllPages test of a fully
\* paged listing.
C21_Witness ==
  /\ ev = Ignored /\ fetchAllPages /\ capability.pagination /\ ~loading
  /\ currentPage >= 2 /\ calls = {}

\* C22: a navigation that succeeds on a mount point without pagination
\* replaces currentList with the whole directory and leaves fetchAllPages
\* true.
C22_UnpagedNavigationSetsAllPages ==
  [][\A c \in calls :
       (Succeeds(c) /\ ~c.paged /\ before # NoSnapshot) =>
         /\ currentList' = Listing(c.dir.path)
         /\ fetchAllPages']_vars

\* C23: page fetches are strictly sequential: at no time are two list calls
\* outstanding, and no two outstanding requests ask for the same page number
\* and marker of one listing.
C23_PageFetchesSequential ==
  /\ Cardinality(ListCalls) <= 1
  /\ \A c, d \in ListCalls :
       (c.paged /\ d.paged /\ c.dir.path = d.dir.path
          /\ c.number = d.number /\ c.marker = d.marker) => c = d

\* The entry of `list` with filename `name`.
EntryNamed(list, name) ==
  list[CHOOSE i \in 1..Len(list) : list[i].filename = name]

\* A paged list request is answered with a non-empty page and merged.
Merges(c) == c.paged /\ Page(c.dir.path, c.marker, c.size) # <<>> /\ Succeeds(c)

\* C24: when a fetched page holds an entry whose filename already occurs in
\* currentList, the merge keeps the entry of the fetched page and discards the
\* earlier one.
C24_MergeKeepsFetchedEntry ==
  [][\A c \in calls : Merges(c) =>
       LET page == Page(c.dir.path, c.marker, c.size)
       IN  \A i \in 1..Len(page) :
             HasName(currentList, page[i].filename) =>
               EntryNamed(currentList', page[i].filename) = page[i]]_vars

\* C25: after every page merge no two entries of currentList have the same
\* filename, also when the fetched page overlaps the entries already held.
C25_MergeLeavesNoDuplicates ==
  [][\A c \in calls : Merges(c) =>
       \A i, j \in 1..Len(currentList') :
         currentList'[i].filename = currentList'[j].filename => i = j]_vars

\* A page that overlapped the entries held has been merged: the list holds
\* entry 3 of home:/ next to the entries of home:/d, whose own entry 3 was
\* dropped.
C25_Witness ==
  /\ currentPath.path = "home:/d"
  /\ Names(currentList) = <<2, 3, 1>>
  /\ ev = Quiet /\ calls = {}

\* C26: right after a successful navigation to a location, mount root or
\* sub-directory, totalCount and totalSize are the totals that the stat call
\* of that navigation returned.
\* (Stated for a navigation requested in an idle session and served alone.)
C26_TotalsAreStatTotals ==
  [][\A c \in calls :
       (c.arg # Undef /\ Succeeds(c) /\ before # NoSnapshot) =>
         /\ totalCount' = Stat(c.arg.path).totalCount
         /\ totalSize' = Stat(c.arg.path).totalSize]_vars

\* C27: when a paginated backend answers a page request with an empty page,
\* fetchAllPages becomes true, currentList stays as it is and no error is
\* reported.
C27_EmptyPageEndsPaging ==
  [][\A c \in calls :
       (listOk(c.id) /\ c.pc = "list" /\ c.paged
          /\ Page(c.dir.path, c.marker, c.size) = <<>>) =>
         /\ fetchAllPages'
         /\ currentList' = currentList
         /\ ev'.kind # "error"]_vars

C29_DirectoriesEndWithSeparator ==
  [][\A item \in AddElements : refreshAdd(item) =>
       LET addItem == createFileItem(item, currentPath.path)
       IN  /\ addItem.isDirectory # addItem.isFile
           /\ addItem.dir = currentPath.path
           /\ addItem.isDirectory => addItem.slash]_vars

\* The number of divisions by 1024 that bring a byte count of digits d below
\* 1024: the count has Len(d) digits, so it lies between 1024^(Len(d) - 1)
\* and 1024^Len(d).
Divisions(d) == Len(d) - 1

C31_FailedListKeepsTotals ==
  [][\A c \in calls :
       (c.arg # Undef /\ listFail(c.id) /\ before # NoSnapshot) =>
         /\ totalCount' = before.totalCount
         /\ totalSize' = before.totalSize]_vars

\* The operations that are requested or complete next to a navigation: a
\* directory activation, a mount-point selection and its continuation, a Go
\* menu or address bar navigation, and the completion of a mutation.
OtherOperation ==
  \/ \E p \in Paths : activate(p)
  \/ \E p \in Roots : mountSelect(p)
  \/ \E id \in Ids : mountCapOk(id)
  \/ \E p \in Roots : onNavigate(p)
  \/ \E id \in Ids : mutOk(id)

\* C32: while a navigation or page fetch is in flight (the loading flag is
\* up and its list call outstanding), no other operation requested or
\* completing in that window changes currentList, totalCount, totalSize,
\* currentPage, currentLastItem or capability.
C32_NoChangeWhileInFlight ==
  [][(loading /\ ListCalls # {} /\ OtherOperation) =>
       UNCHANGED <<currentList, totalCount, totalSize, currentPage,
                   currentLastItem, capability>>]_vars

\* C33: in every reachable state currentList is sorted ascending by filename
\* and has no two entries of one filename, for every interleaving of page
\* loads and mutation reconciliations, the backend returning every
\* directory's entries in ascending filename order.  (Stated step by step:
\* neither a reconciliation nor the list result of a navigation or page fetch
\* that was requested in an idle session and served alone turns a sorted list
\* into an unsorted one.)
C33_ListAlwaysSorted ==
  [][(/\ Sorted(currentList)
      /\ \/ \E id \in Ids : mutOk(id)
         \/ before # NoSnapshot /\ \E id \in Ids : listOk(id))
       => Sorted(currentList')]_vars

\* The request of call c ends in readdir's catch block: the list call
\* rejects, or its page is empty.
EndsInCatch(c) == listFail(c.id) \/ (listOk(c.id) /\ ev'.kind = "error")

\* C34: when the request for a further page fails, the pages merged before
\* are retained: currentList, currentPage, currentLastItem, fetchAllPages and
\* currentPath keep their values, which are those held when the page was
\* requested (compared for a request made in an idle session and served
\* alone), so that the next loadNextPage() asks for the same page.
C34_FailedPageKeepsPages ==
  [][\A c \in calls : (c.arg = Undef /\ EndsInCatch(c)) =>
       /\ UNCHANGED <<currentList, currentPage, currentLastItem, fetchAllPages,
                      currentPath>>
       /\ before # NoSnapshot =>
            (currentList' = before.list /\ currentPath' = before.path)]_vars

\* The list call of a further page of home:/ has just been rejected: the
\* first page is still held and the paging state still points behind it.
C34_Witness ==
  /\ ev = ErrorDialog("MSG_READDIR_ERROR", "home:/")
  /\ ops = 2 /\ calls = {} /\ muts = {} /\ ~loading
  /\ currentPath = homePath
  /\ Names(currentList) = <<2, 3>> /\ currentPage = 1 /\ currentLastItem = 3

\* C35: whenever a listing is fetched for a location, the mode of the request
\* (paged or one full listing) and its page size are those of the capability
\* of the mount point that holds the location, however the location was
\* navigated to.  (Stated for a navigation requested in an idle session and
\* served alone.)
C35_RequestFollowsMountCapability ==
  [][\A id \in Ids : (statOk(id) /\ before # NoSnapshot) =>
       \A d \in ListCalls' :
         /\ d.paged = Capabilities(d.dir.path).pagination
         /\ d.size = Capabilities(d.dir.path).page_size]_vars

\* The list without its entries equal to item.
Without(list, item) == SelectSeq(list, LAMBDA e : e # item)

\* C36: remove(item) for an item that is not an element of currentList leaves
\* currentList, totalCount and totalSize as they are, and remove never
\* deletes an entry other than the one it was given.  (Stated for the
\* reconciliation of a finished delete.)
C36_RemoveOnlyTheGivenItem ==
  [][\A id \in Ids : \A m \in muts :
       (m.id = id /\ m.kind = "delete" /\ mutOk(id)) =>
         IF IndexOf(currentList, m.item) = -1
         THEN UNCHANGED <<currentList, totalCount, totalSize>>
         ELSE currentList' = Without(currentList, m.item)]_vars

\* C37: every reconciliation (create, delete, rename, paste, upload) changes
\* totalCount by exactly the amount by which it changes the length of
\* currentList, also when it creates or renames to a filename the list
\* already has: totalCount - Len(currentList) is the same before and after.
C37_CountFollowsLength ==
  [][totalCount' - Len(currentList') = totalCount - Len(currentList)]_vars

\* No navigation is requested or under way and the loading flag is down.
Idle == calls = {} /\ ~loading

\* C38: whenever the session is idle and the history list is not empty,
\* history.list[index] is the displayed location currentPath; a back() or
\* forward() whose navigation is dropped or fails does not leave the index at
\* another location.
C38_HistoryIndexIsDisplayed ==
  (Idle /\ Len(history.list) > 0 /\ currentPath # Undef) =>
    At(history.list, history.index).path = currentPath.path

\* C39: whenever the session is idle, currentList holds only entries of the
\* directory currentPath: a list result requested for one directory is never
\* merged into or shown as the listing of another.  (Stated at the end of a
\* navigation that was requested in an idle session and served alone.)
C39_ListHoldsOnlyCurrentDirectory ==
  [][\A c \in calls : (c.arg # Undef /\ Succeeds(c) /\ before # NoSnapshot) =>
       \A i \in 1..Len(currentList') : currentList'[i].dir = currentPath'.path]_vars

====
